---- MODULE Spec2Model ----
(***************************************************************************)
(* A model of the trunc package (menzenski/trunc): the page fetcher of     *)
(* trunc/web.py, the utilities of trunc/util.py, and the source-citation   *)
(* parser and query classes of trunc/rnc.py.                               *)
(*                                                                         *)
(* Python strings are modelled as sequences of one-character strings, so   *)
(* that splitting, replacing and regular-expression matching are computed  *)
(* character by character, as the code computes them.                      *)
(***************************************************************************)
EXTENDS Integers, Sequences, FiniteSets, TLC

VARIABLES
    \* ---- trunc/web.py: one Webpage object and its calls of page()
    f_pc,             \* position of the caller/page(): idle, loop, open, except, returned
    delay,            \* Webpage.delay
    attempt,          \* local variable of page()
    page_not_loaded,  \* local variable of page()
    page_instance,    \* Webpage.page_instance (NoPage until the first success)
    result,           \* what the last finished page() returned to its caller
    calls,            \* number of page() calls started so far
    outcomes,         \* outcomes of opener.open in the current call, in order
    sleeps,           \* time.sleep calls of the current call, in order
    prev_failures,    \* number of IOErrors of the previous call
    \* ---- trunc/rnc.py: one RNCSource object
    s_pc, source_name, bare_name, date_begin, date_middle, date_end,
    \* ---- trunc/util.py: one call of as_integer
    i_pc, i_s, i_ret,
    \* ---- trunc/rnc.py: a query, its url() and the query parsed from that url
    q_pc, q_cls, q_kwargs, q_dict, q_address, q2_cls, q2_dict, q_error

fetchVars  == <<f_pc, delay, attempt, page_not_loaded, page_instance, result,
                calls, outcomes, sleeps, prev_failures>>
sourceVars == <<s_pc, source_name, bare_name, date_begin, date_middle, date_end>>
intVars    == <<i_pc, i_s, i_ret>>
queryVars  == <<q_pc, q_cls, q_kwargs, q_dict, q_address, q2_cls, q2_dict,
                q_error>>
vars       == <<fetchVars, sourceVars, intVars, queryVars>>

(***************************************************************************)
(* Bounds of the model.                                                    *)
(***************************************************************************)
MaxFailures == 4   \* IOErrors the opener may raise within one page() call
MaxCalls    == 2   \* page() calls on the Webpage object
MaxDelay    == 1   \* Webpage.delay ranges over 0..MaxDelay
MaxParts    == 6   \* pieces a citation string is built from
MaxIntLen   == 3   \* characters of an argument of as_integer
MaxKwargs   == 2   \* explicit parameters given to a query
MaxPairs    == 2   \* key=value pairs of a url given from outside

Last(s) == s[Len(s)]

\* The responses the opener may return, and the value of an attribute or
\* result that has not been set.
Pages  == {"page1", "page2"}
NoPage == "unset"

(***************************************************************************)
(* trunc/util.py                                                           *)
(***************************************************************************)

\* The loop of fibonacci_number: i iterations of  a, b = b, a + b.
RECURSIVE fib_loop(_, _, _)
fib_loop(a, b, i) == IF i <= 0 THEN a ELSE fib_loop(b, a + b, i - 1)

\* A fibonacci_number that starts its pair at 0, 1.
fibonacci_number_from_zero(n) == fib_loop(0, 1, n - 1)

\* fibonacci_number(n):  a, b = 1, 1; for _ in xrange(n - 1): ...; return a
fibonacci_number(n) == fib_loop(1, 1, n - 1)

(***************************************************************************)
(* trunc/web.py: Webpage.page                                              *)
(***************************************************************************)
IdleFetch ==
    /\ f_pc = "idle" /\ attempt = 0 /\ page_not_loaded = FALSE
    /\ page_instance = NoPage /\ result = NoPage /\ calls = 0
    /\ outcomes = <<>> /\ sleeps = <<>> /\ prev_failures = 0

\* Webpage.__init__(address, delay): nothing has been fetched yet.
Webpage_init == IdleFetch /\ delay \in 0..MaxDelay

Failures(os) == Cardinality({i \in 1..Len(os) : ~os[i].ok})

\* page() is entered:  attempt = 1; page_not_loaded = True
page_enter ==
    /\ f_pc \in {"idle", "returned"}
    /\ calls < MaxCalls
    /\ calls' = calls + 1
    /\ attempt' = 1
    /\ page_not_loaded' = TRUE
    /\ outcomes' = <<>>
    /\ sleeps' = <<>>
    /\ prev_failures' = Failures(outcomes)
    /\ f_pc' = "loop"
    /\ UNCHANGED <<delay, page_instance, result>>

\* while page_not_loaded: try: time.sleep(self.delay)
page_sleep_delay ==
    /\ f_pc = "loop"
    /\ page_not_loaded
    /\ sleeps' = Append(sleeps, [kind |-> "delay", secs |-> delay])
    /\ f_pc' = "open"
    /\ UNCHANGED <<delay, attempt, page_not_loaded, page_instance, result,
                   calls, outcomes, prev_failures>>

\* A page_open_ok that forgets to clear page_not_loaded.
page_open_ok_keeps_looping(p) ==
    /\ f_pc = "open"
    /\ page_instance' = p
    /\ outcomes' = Append(outcomes, [ok |-> TRUE, page |-> p])
    /\ f_pc' = "loop"
    /\ UNCHANGED <<delay, attempt, page_not_loaded, result, calls, sleeps,
                   prev_failures>>

\* self.page_instance = self.opener.open(self.address) succeeds;
\* page_not_loaded = False
page_open_ok(p) ==
    /\ f_pc = "open"
    /\ page_instance' = p
    /\ page_not_loaded' = FALSE
    /\ outcomes' = Append(outcomes, [ok |-> TRUE, page |-> p])
    /\ f_pc' = "loop"
    /\ UNCHANGED <<delay, attempt, result, calls, sleeps, prev_failures>>

\* self.opener.open(self.address) raises IOError: control enters the handler.
page_open_ioerror ==
    /\ f_pc = "open"
    /\ attempt <= MaxFailures
    /\ outcomes' = Append(outcomes, [ok |-> FALSE, page |-> NoPage])
    /\ f_pc' = "except"
    /\ UNCHANGED <<delay, attempt, page_not_loaded, page_instance, result,
                   calls, sleeps, prev_failures>>

\* A handler that stops retrying after its third attempt.
page_except_gives_up ==
    /\ f_pc = "except"
    /\ sleeps' = Append(sleeps, [kind |-> "backoff",
                                 secs |-> fibonacci_number(attempt)])
    /\ attempt' = attempt + 1
    /\ f_pc' = IF attempt >= 3 THEN "gave_up" ELSE "loop"
    /\ UNCHANGED <<delay, page_not_loaded, page_instance, result, calls,
                   outcomes, prev_failures>>

\* A handler that goes straight back to the retrieval, past the delay.
page_except_skips_delay ==
    /\ f_pc = "except"
    /\ sleeps' = Append(sleeps, [kind |-> "backoff",
                                 secs |-> fibonacci_number(attempt)])
    /\ attempt' = attempt + 1
    /\ f_pc' = "open"
    /\ UNCHANGED <<delay, page_not_loaded, page_instance, result, calls,
                   outcomes, prev_failures>>

\* except IOError: print(...); time.sleep(fibonacci_number(attempt));
\* attempt += 1      -- and back to the loop test
page_except ==
    /\ f_pc = "except"
    /\ sleeps' = Append(sleeps, [kind |-> "backoff",
                                 secs |-> fibonacci_number(attempt)])
    /\ attempt' = attempt + 1
    /\ f_pc' = "loop"
    /\ UNCHANGED <<delay, page_not_loaded, page_instance, result, calls,
                   outcomes, prev_failures>>

\* the loop test fails:  return self.page_instance
page_return ==
    /\ f_pc = "loop"
    /\ ~page_not_loaded
    /\ result' = page_instance
    /\ f_pc' = "returned"
    /\ UNCHANGED <<delay, attempt, page_not_loaded, page_instance, calls,
                   outcomes, sleeps, prev_failures>>

PageStep ==
    \/ page_enter
    \/ page_sleep_delay
    \/ page_except
    \/ page_return

OpenOk == \E p \in Pages : page_open_ok(p)

(***************************************************************************)
(* Python's str operations, on sequences of characters.                    *)
(***************************************************************************)
Digits     == {"0", "1", "2", "3", "4", "5", "6", "7", "8", "9"}
\* The whitespace characters of the model (a subset of string.whitespace).
Whitespace == {" ", "\t", "\n"}

DigitVal(c) ==
    CASE c = "0" -> 0 [] c = "1" -> 1 [] c = "2" -> 2 [] c = "3" -> 3
      [] c = "4" -> 4 [] c = "5" -> 5 [] c = "6" -> 6 [] c = "7" -> 7
      [] c = "8" -> 8 [] c = "9" -> 9

AllDigits(s) == \A i \in 1..Len(s) : s[i] \in Digits

\* s.isdigit(): every character is a digit and there is at least one.
isdigit(s) == Len(s) > 0 /\ AllDigits(s)

\* The value of a string of decimal digits (0 for the empty string).
RECURSIVE digits_value(_)
digits_value(s) ==
    IF Len(s) = 0 THEN 0
    ELSE 10 * digits_value(SubSeq(s, 1, Len(s) - 1)) + DigitVal(Last(s))

\* s.replace(old, new) for a one-character old.
RECURSIVE replace(_, _, _)
replace(s, old, new) ==
    IF Len(s) = 0 THEN <<>>
    ELSE (IF s[1] = old THEN new ELSE <<s[1]>>) \o replace(Tail(s), old, new)

\* s.split(sep) for a one-character sep: the fields between the occurrences
\* of sep, one more than there are occurrences.
split(s, sep) ==
    LET P      == {i \in 1..Len(s) : s[i] = sep}
        nth(k) == IF k = 0 THEN 0
                  ELSE IF k > Cardinality(P) THEN Len(s) + 1
                  ELSE CHOOSE p \in P : Cardinality({q \in P : q < p}) = k - 1
    IN  [k \in 1..(Cardinality(P) + 1) |->
            SubSeq(s, nth(k - 1) + 1, nth(k) - 1)]

\* s.strip(): leading and trailing whitespace removed.
RECURSIVE lstrip(_)
lstrip(s) ==
    IF Len(s) > 0 /\ s[1] \in Whitespace THEN lstrip(Tail(s)) ELSE s

RECURSIVE rstrip(_)
rstrip(s) ==
    IF Len(s) > 0 /\ Last(s) \in Whitespace
    THEN rstrip(SubSeq(s, 1, Len(s) - 1)) ELSE s

strip(s) == rstrip(lstrip(s))

\* int(s) of Python 2 for a str: surrounding whitespace is ignored, one sign is
\* allowed, and what remains must be one or more digits; otherwise ValueError.
int(s) ==
    LET t    == strip(s)
        sign == Len(t) > 0 /\ t[1] \in {"-", "+"}
        body == IF sign THEN Tail(t) ELSE t
    IN  IF isdigit(body)
        THEN [raised |-> "none",
              value  |-> IF sign /\ t[1] = "-" THEN 0 - digits_value(body)
                         ELSE digits_value(body)]
        ELSE [raised |-> "ValueError", value |-> 0]

(***************************************************************************)
(* trunc/util.py: as_integer                                               *)
(***************************************************************************)
\* delims=[' ']
delims == <<" ">>

\* for d in delims: s = s.replace(d, '')
RECURSIVE strip_delims(_, _)
strip_delims(s, ds) ==
    IF Len(ds) = 0 THEN s ELSE strip_delims(replace(s, ds[1], <<>>), Tail(ds))

\* try: i = int(s)  except ValueError: i = 0;  return i
as_integer(s) ==
    LET r == int(strip_delims(s, delims))
    IN  IF r.raised = "ValueError"
        THEN [raised |-> "none", value |-> 0]
        ELSE r

(***************************************************************************)
(* trunc/rnc.py: RNCSource                                                 *)
(***************************************************************************)
\* Dates are Python floats that are whole or half years; the model holds them
\* in half years, so that 1997.0 is 3994 and the mean of two years is exact.
float(s) == 2 * digits_value(s)

\* re.sub(r'\([^)]*\)', '', s): every "(" that has a ")" after it is removed
\* together with everything up to the first such ")".
RECURSIVE sub_parens(_)
sub_parens(s) ==
    IF Len(s) = 0 THEN <<>>
    ELSE IF s[1] = "(" /\ \E j \in 2..Len(s) : s[j] = ")"
    THEN LET j == CHOOSE j \in 2..Len(s) :
                     s[j] = ")" /\ \A k \in 2..(j - 1) : s[k] # ")"
         IN  sub_parens(SubSeq(s, j + 1, Len(s)))
    ELSE <<s[1]>> \o sub_parens(Tail(s))

\* r'\d{4}-\d{4}' matches at position i of s.
match_range_at(s, i) ==
    /\ i + 8 <= Len(s)
    /\ \A j \in 0..3 : s[i + j] \in Digits
    /\ s[i + 4] = "-"
    /\ \A j \in 5..8 : s[i + j] \in Digits

\* r'\d{4}' matches at position i of s.
match_year_at(s, i) ==
    /\ i + 3 <= Len(s)
    /\ \A j \in 0..3 : s[i + j] \in Digits

\* re.findall(r'\d{4}-\d{4}', s) from position i on: the scan takes the
\* leftmost match, then goes on after its end.
RECURSIVE findall_range(_, _)
findall_range(s, i) ==
    IF i > Len(s) THEN <<>>
    ELSE IF match_range_at(s, i)
    THEN <<SubSeq(s, i, i + 8)>> \o findall_range(s, i + 9)
    ELSE findall_range(s, i + 1)

\* re.findall(r'\d{4}', s) from position i on.
RECURSIVE findall_year(_, _)
findall_year(s, i) ==
    IF i > Len(s) THEN <<>>
    ELSE IF match_year_at(s, i)
    THEN <<SubSeq(s, i, i + 3)>> \o findall_year(s, i + 4)
    ELSE findall_year(s, i + 1)

\* a < b for two str objects of digits: by the first character that differs,
\* a proper prefix being the smaller.
RECURSIVE str_less(_, _)
str_less(a, b) ==
    IF Len(b) = 0 THEN FALSE
    ELSE IF Len(a) = 0 THEN TRUE
    ELSE IF a[1] # b[1] THEN DigitVal(a[1]) < DigitVal(b[1])
    ELSE str_less(Tail(a), Tail(b))

\* max(seq) of a non-empty list of str.
RECURSIVE max(_)
max(seq) ==
    IF Len(seq) = 1 THEN seq[1]
    ELSE LET m == max(Tail(seq))
         IN  IF str_less(seq[1], m) THEN m ELSE seq[1]

\* min(seq) of a non-empty list of str.
RECURSIVE min(_)
min(seq) ==
    IF Len(seq) = 1 THEN seq[1]
    ELSE LET m == min(Tail(seq))
         IN  IF str_less(m, seq[1]) THEN m ELSE seq[1]

\* The single-date branch of parse_dates, taking the latest date.
single_date_latest(dates) == float(max(dates))

\* float(min(dates)) of parse_dates
single_date(dates) == float(min(dates))

\* The range branch of parse_dates, reading the last range of the name.
range_dates_last(date_seq) ==
    LET b == float(split(Last(date_seq), "-")[1])
        e == float(split(Last(date_seq), "-")[2])
    IN  [date_begin |-> b, date_end |-> e, date_middle |-> (b + e) \div 2]

\* date_begin = float(date_seq[0].split('-')[0]); date_end = ...[1];
\* date_middle = (date_begin + date_end) / 2.0
range_dates(date_seq) ==
    LET b == float(split(date_seq[1], "-")[1])
        e == float(split(date_seq[1], "-")[2])
    IN  [date_begin |-> b, date_end |-> e, date_middle |-> (b + e) \div 2]

\* parse_dates, given the dates set before it (the defaults 0.0).
parse_dates(name, before) ==
    LET date_seq == findall_range(name, 1)
    IN  IF Len(date_seq) > 0 THEN range_dates(date_seq)
        ELSE LET dates == findall_year(name, 1)
             IN  IF Len(dates) > 0
                 THEN [date_begin  |-> single_date(dates),
                       date_middle |-> single_date(dates),
                       date_end    |-> single_date(dates)]
                 ELSE before

\* The pieces citation strings are built from: two years, a hyphen, a single
\* digit and a parenthesized letter.
Pieces == { <<"1", "9", "9", "5">>, <<"1", "9", "8", "2">>,
            <<"-">>, <<"7">>, <<"(", "x", ")">> }

RECURSIVE Flatten(_)
Flatten(ps) == IF Len(ps) = 0 THEN <<>> ELSE ps[1] \o Flatten(Tail(ps))

Citations ==
    { Flatten(ps) : ps \in UNION { [1..k -> Pieces] : k \in 0..MaxParts } }

IdleSource ==
    /\ s_pc = "none" /\ source_name = <<>> /\ bare_name = <<>>
    /\ date_begin = 0 /\ date_middle = 0 /\ date_end = 0

\* The caller holds a citation string and has not yet built the RNCSource.
NewSource ==
    /\ s_pc = "new" /\ source_name \in Citations /\ bare_name = <<>>
    /\ date_begin = 0 /\ date_middle = 0 /\ date_end = 0

\* RNCSource.__init__(source_name)
RNCSource_init ==
    LET d == parse_dates(source_name, [date_begin |-> 0, date_middle |-> 0,
                                       date_end |-> 0])
    IN  /\ s_pc = "new"
        /\ UNCHANGED source_name
        /\ bare_name' = sub_parens(source_name)
        /\ date_begin' = d.date_begin
        /\ date_middle' = d.date_middle
        /\ date_end' = d.date_end
        /\ s_pc' = "constructed"

(***************************************************************************)
(* The call of as_integer under study.                                     *)
(***************************************************************************)
IntAlphabet == {"1", "4", " ", "\t", "a", "-"}

IntStrings == UNION { [1..k -> IntAlphabet] : k \in 0..MaxIntLen }

IdleInt == i_pc = "none" /\ i_s = <<>> /\ i_ret = [raised |-> "none", value |-> 0]

\* The caller holds a string and has not yet called as_integer.
NewInt ==
    /\ i_pc = "new" /\ i_s \in IntStrings
    /\ i_ret = [raised |-> "none", value |-> 0]

\* i_ret = as_integer(i_s)
call_as_integer ==
    /\ i_pc = "new"
    /\ UNCHANGED i_s
    /\ i_ret' = as_integer(i_s)
    /\ i_pc' = "called"

(***************************************************************************)
(* trunc/rnc.py: the query classes                                         *)
(*                                                                         *)
(* A Python 2 str is a sequence of bytes: an ASCII byte is written as its  *)
(* character, and the two bytes of the UTF-8 form of U+0447 as "xD1" and   *)
(* "x87".  The characters of a unicode object are ASCII characters and     *)
(* "U0447", "U0421", "U2021".  A value is a str, a unicode or an int.      *)
(***************************************************************************)
Str(s)     == [t |-> "str", s |-> s, n |-> 0]
Unicode(s) == [t |-> "unicode", s |-> s, n |-> 0]
PyInt(n)     == [t |-> "int", s |-> <<>>, n |-> n]
None       == [t |-> "None", s |-> <<>>, n |-> 0]

Classes == {"RNCQueryGeneric", "RNCQueryOld", "RNCQueryMid", "RNCQueryMain"}

\* RNCQueryGeneric.DEFAULTS
RNCQueryGeneric_DEFAULTS ==
    (<<"m", "o", "d", "e">> :> Str(<<>>))

\* RNCQueryOld.DEFAULTS
RNCQueryOld_DEFAULTS ==
    (<<"m", "o", "d", "e">> :> Str(<<"o", "l", "d", "_", "r", "u", "s">>))
    @@ (<<"t", "e", "x", "t", "1">> :> Str(<<"l", "e", "x", "g", "r", "a",
        "m", "m">>))
    @@ (<<"d", "o", "c", "_", "d", "o", "c", "i", "d">> :> Str(<<"0", "|",
        "1", "3", "|", "2", "|", "3", "|", "1", "|", "4", "|", "7", "|",
        "8", "|", "1", "0", "|", "1", "2", "|", "5", "|", "1", "1", "|",
        "9", "|", "6">>))
    @@ (<<"p", "a", "r", "e", "n", "t", "1">> :> PyInt(0))
    @@ (<<"l", "e", "v", "e", "l", "1">> :> PyInt(0))
    @@ (<<"l", "e", "x", "i", "1">> :> Str(<<>>))
    @@ (<<"g", "r", "a", "m", "m", "1">> :> Str(<<>>))
    @@ (<<"p", "a", "r", "e", "n", "t", "2">> :> PyInt(0))
    @@ (<<"l", "e", "v", "e", "l", "2">> :> PyInt(0))
    @@ (<<"m", "i", "n", "2">> :> PyInt(1))
    @@ (<<"m", "a", "x", "2">> :> PyInt(1))

\* RNCQueryMid.DEFAULTS
RNCQueryMid_DEFAULTS ==
    (<<"e", "n", "v">> :> Str(<<"a", "l", "p", "h", "a">>))
    @@ (<<"m", "o", "d", "e">> :> Str(<<"m", "i", "d", "_", "r", "u", "s">>))
    @@ (<<"t", "e", "x", "t">> :> Str(<<"l", "e", "x", "f", "o", "r", "m">>))
    @@ (<<"s", "o", "r", "t">> :> Str(<<"g", "r", "_", "c", "r", "e", "a",
        "t", "e", "d">>))
    @@ (<<"l", "a", "n", "g">> :> Str(<<"r", "u">>))
    @@ (<<"m", "y", "c", "o", "r", "p">> :> Str(<<>>))
    @@ (<<"m", "y", "s", "e", "n", "t">> :> Str(<<>>))
    @@ (<<"m", "y", "s", "i", "z", "e">> :> Str(<<>>))
    @@ (<<"m", "y", "s", "e", "n", "t", "s", "i", "z", "e">> :> Str(<<>>))
    @@ (<<"m", "y", "d", "o", "c", "s", "i", "z", "e">> :> Str(<<>>))
    @@ (<<"d", "p", "p">> :> Str(<<>>))
    @@ (<<"s", "p", "p">> :> Str(<<>>))
    @@ (<<"s", "p", "d">> :> Str(<<>>))
    @@ (<<"r", "e", "q">> :> Str(<<>>))

\* RNCQueryMain.DEFAULTS
RNCQueryMain_DEFAULTS ==
    (<<"m", "y", "c", "o", "r", "p">> :> Str(<<>>))
    @@ (<<"m", "y", "s", "e", "n", "t">> :> Str(<<>>))
    @@ (<<"m", "y", "s", "i", "z", "e">> :> Str(<<>>))
    @@ (<<"d", "p", "p">> :> Str(<<>>))
    @@ (<<"s", "p", "p">> :> Str(<<>>))
    @@ (<<"s", "p", "d">> :> Str(<<>>))
    @@ (<<"t", "e", "x", "t">> :> Str(<<"l", "e", "x", "g", "r", "a", "m",
        "m">>))
    @@ (<<"m", "o", "d", "e">> :> Str(<<"m", "a", "i", "n">>))
    @@ (<<"s", "o", "r", "t">> :> Str(<<"g", "r", "_", "t", "a", "g", "g",
        "i", "n", "g">>))
    @@ (<<"l", "a", "n", "g">> :> Str(<<"e", "n">>))
    @@ (<<"p", "a", "r", "e", "n", "t", "1">> :> PyInt(0))
    @@ (<<"l", "e", "v", "e", "l", "1">> :> PyInt(0))
    @@ (<<"l", "e", "x", "1">> :> Str(<<>>))
    @@ (<<"g", "r", "a", "m", "m", "1">> :> Str(<<>>))
    @@ (<<"s", "e", "m", "1">> :> Str(<<>>))
    @@ (<<"f", "l", "a", "g", "s", "1">> :> Str(<<>>))
    @@ (<<"s", "e", "m", "-", "m", "o", "d", "1">> :> Str(<<>>))
    @@ (<<"s", "e", "m", "-", "m", "o", "d", "2">> :> Str(<<>>))
    @@ (<<"p", "a", "r", "e", "n", "t", "2">> :> PyInt(0))
    @@ (<<"l", "e", "v", "e", "l", "2">> :> PyInt(0))
    @@ (<<"m", "i", "n", "2">> :> PyInt(1))
    @@ (<<"m", "a", "x", "2">> :> PyInt(1))
    @@ (<<"l", "e", "x", "2">> :> Str(<<>>))
    @@ (<<"g", "r", "a", "m", "m", "2">> :> Str(<<>>))
    @@ (<<"s", "e", "m", "2">> :> Str(<<>>))
    @@ (<<"f", "l", "a", "g", "s", "2">> :> Str(<<>>))

\* self.__class__.DEFAULTS
DEFAULTS(cls) ==
    CASE cls = "RNCQueryGeneric" -> RNCQueryGeneric_DEFAULTS
      [] cls = "RNCQueryOld"     -> RNCQueryOld_DEFAULTS
      [] cls = "RNCQueryMid"     -> RNCQueryMid_DEFAULTS
      [] cls = "RNCQueryMain"    -> RNCQueryMain_DEFAULTS

\* "http://search.ruscorpora.ru/search.xml?"
search_url ==
    <<"h", "t", "t", "p", ":", "/", "/", "s", "e", "a", "r", "c", "h", ".",
        "r", "u", "s", "c", "o", "r", "p", "o", "r", "a", ".", "r", "u",
        "/", "s", "e", "a", "r", "c", "h", ".", "x", "m", "l", "?">>

\* "http://search-beta.ruscorpora.ru/search.xml?"
search_beta_url ==
    <<"h", "t", "t", "p", ":", "/", "/", "s", "e", "a", "r", "c", "h", "-",
        "b", "e", "t", "a", ".", "r", "u", "s", "c", "o", "r", "p", "o",
        "r", "a", ".", "r", "u", "/", "s", "e", "a", "r", "c", "h", ".",
        "x", "m", "l", "?">>

\* The attribute name base_url, and the parameter names p and lex1.
base_url == <<"b", "a", "s", "e", "_", "u", "r", "l">>
key_p    == <<"p">>
key_lex1 == <<"l", "e", "x", "1">>

\* getattr(self, k, None), the object given by its __dict__.  The parameter
\* names of the model are not names of class attributes or methods.
getattr(d, k) == IF k \in DOMAIN d THEN d[k] ELSE None

\* setattr(self, k, v)
setattr(d, k, v) ==
    [x \in DOMAIN d \cup {k} |-> IF x = k THEN v ELSE d[x]]

\* A loop that sets every pair of m, whether or not the attribute exists.
set_missing_overwriting(d, m) ==
    [k \in DOMAIN d \cup DOMAIN m |-> IF k \in DOMAIN m THEN m[k] ELSE d[k]]

\* for k, v in m.iteritems():
\*     a = getattr(self, k, None)
\*     if a is None: setattr(self, k, v)
\* The keys of m are distinct and each pass touches only its own key, so the
\* result does not depend on the order of the passes.
set_missing(d, m) ==
    [k \in DOMAIN d \cup DOMAIN m |->
        IF k \in DOMAIN m /\ getattr(d, k) = None THEN m[k] ELSE d[k]]

\* __init__ of the four classes when url is None.
init_kwargs(cls, kwargs) ==
    LET d0 == base_url :> Str(search_url)
        d1 == set_missing(d0, kwargs)
        d2 == set_missing(d1, DEFAULTS(cls))
    IN  IF cls \in {"RNCQueryOld", "RNCQueryMid"}
        THEN setattr(d2, base_url, Str(search_beta_url))
        ELSE d2

DigitChar(n) == CHOOSE c \in Digits : DigitVal(c) = n

\* str(n) for an int n >= 0
RECURSIVE int_to_str(_)
int_to_str(n) ==
    IF n < 10 THEN <<DigitChar(n)>>
    ELSE int_to_str(n \div 10) \o <<DigitChar(n % 10)>>

IsAscii(c) == c \notin {"xD1", "x87", "x??", "U0447", "U0421", "U2021", "U????"}

\* b.decode('utf-8') for a str b
RECURSIVE decode_utf8(_)
decode_utf8(b) ==
    IF Len(b) = 0 THEN [raised |-> "none", s |-> <<>>]
    ELSE IF b[1] = "xD1" /\ Len(b) >= 2 /\ b[2] = "x87"
    THEN LET r == decode_utf8(SubSeq(b, 3, Len(b)))
         IN  [raised |-> r.raised, s |-> <<"U0447">> \o r.s]
    ELSE IF ~IsAscii(b[1])
    THEN [raised |-> "UnicodeDecodeError", s |-> <<>>]
    ELSE LET r == decode_utf8(Tail(b))
         IN  [raised |-> r.raised, s |-> <<b[1]>> \o r.s]

\* b.decode('windows-1251') for a str b
RECURSIVE decode_cp1251(_)
decode_cp1251(b) ==
    IF Len(b) = 0 THEN <<>>
    ELSE << CASE b[1] = "xD1" -> "U0421"
              [] b[1] = "x87" -> "U2021"
              [] b[1] = "x??" -> "U????"
              [] OTHER        -> b[1] >> \o decode_cp1251(Tail(b))

\* b.decode(enc); enc is None when the parsed markup was already unicode.
decode(b, enc) ==
    CASE enc = "None"         -> [raised |-> "TypeError", s |-> <<>>]
      [] enc = "utf-8"        -> decode_utf8(b)
      [] enc = "windows-1251" -> [raised |-> "none", s |-> decode_cp1251(b)]

\* u.encode('utf-8') for the unicode characters of the model
RECURSIVE encode_utf8(_)
encode_utf8(u) ==
    IF Len(u) = 0 THEN <<>>
    ELSE (IF u[1] = "U0447" THEN <<"xD1", "x87">> ELSE <<u[1]>>)
             \o encode_utf8(Tail(u))

\* to_unicode_or_bust(obj): a str is decoded as UTF-8, anything else is
\* returned as it is.
to_unicode_or_bust(v) ==
    IF v.t = "str"
    THEN LET r == decode_utf8(v.s)
         IN  [raised |-> r.raised, v |-> Unicode(r.s)]
    ELSE [raised |-> "none", v |-> v]

\* urllib.quote(b) for the bytes of the model: letters, digits and "_.-/"
\* are kept, every other byte becomes %XX.
RECURSIVE quote(_)
quote(b) ==
    IF Len(b) = 0 THEN <<>>
    ELSE (CASE b[1] = "xD1" -> <<"%", "D", "1">>
            [] b[1] = "x87" -> <<"%", "8", "7">>
            [] b[1] = " "   -> <<"%", "2", "0">>
            [] OTHER        -> <<b[1]>>) \o quote(Tail(b))

HexDigits == Digits \cup {"A", "B", "C", "D", "E", "F", "a", "b", "c", "d", "e", "f"}

\* urllib.unquote(s): %XX becomes the byte XX, anything else is kept.
RECURSIVE unquote(_)
unquote(s) ==
    IF Len(s) = 0 THEN <<>>
    ELSE IF s[1] = "%" /\ Len(s) >= 3 /\ s[2] \in HexDigits /\ s[3] \in HexDigits
    THEN << CASE s[2] = "D" /\ s[3] = "1" -> "xD1"
              [] s[2] = "8" /\ s[3] = "7" -> "x87"
              [] s[2] = "2" /\ s[3] = "0" -> " "
              [] OTHER                    -> "x??" >>
             \o unquote(SubSeq(s, 4, Len(s)))
    ELSE <<s[1]>> \o unquote(Tail(s))

\* v = urllib.quote(to_unicode_or_bust(v).encode('utf-8')): an int has no
\* encode method.
quote_lex1(v) ==
    LET u == to_unicode_or_bust(v)
    IN  IF u.raised # "none" THEN [raised |-> u.raised, v |-> v]
        ELSE IF u.v.t = "int" THEN [raised |-> "AttributeError", v |-> v]
        ELSE [raised |-> "none", v |-> Str(quote(encode_utf8(u.v.s)))]

\* "{}".format(v) into a str: a unicode must be ASCII.
format(v) ==
    CASE v.t = "int" -> [raised |-> "none", s |-> int_to_str(v.n)]
      [] v.t = "str" -> [raised |-> "none", s |-> v.s]
      [] OTHER ->
           IF \A i \in 1..Len(v.s) : IsAscii(v.s[i])
           THEN [raised |-> "none", s |-> v.s]
           ELSE [raised |-> "UnicodeEncodeError", s |-> <<>>]

\* The body of the loop of url() for the attribute k0 with the address so
\* far: the address with "key=value&" appended, or the exception raised.
url_append(d, k0, address) ==
    LET k == replace(k0, "_", <<"-">>)
        q == IF k = key_lex1 THEN quote_lex1(d[k0])
             ELSE [raised |-> "none", v |-> d[k0]]
        f == format(q.v)
    IN  IF q.raised # "none" THEN [raised |-> q.raised, address |-> address]
        ELSE IF f.raised # "none"
        THEN [raised |-> f.raised, address |-> address]
        ELSE [raised  |-> "none",
              address |-> address \o k \o <<"=">> \o f.s \o <<"&">>]

\* for k, v in self.__dict__.iteritems(): if k != 'base_url': ...
RECURSIVE url_loop(_, _, _)
url_loop(d, order, address) ==
    IF Len(order) = 0 THEN [raised |-> "none", address |-> address]
    ELSE IF order[1] = base_url THEN url_loop(d, Tail(order), address)
    ELSE LET r == url_append(d, order[1], address)
         IN  IF r.raised # "none" THEN r
             ELSE url_loop(d, Tail(order), r.address)

\* url(), with the order in which __dict__ is iterated.
url(d, order) == url_loop(d, order, d[base_url].s)

\* url.split('?', 1)
split_first(s, sep) ==
    IF \E i \in 1..Len(s) : s[i] = sep
    THEN LET i == CHOOSE i \in 1..Len(s) :
                      s[i] = sep /\ \A j \in 1..(i - 1) : s[j] # sep
         IN  <<SubSeq(s, 1, i - 1), SubSeq(s, i + 1, Len(s))>>
    ELSE <<s>>

\* The value parse_url stores for the text v of a pair.
parse_value(v, enc) ==
    IF \E i \in 1..Len(v) : v[i] = "%"
    THEN LET r == decode(unquote(v), enc)
         IN  [raised |-> r.raised, v |-> Unicode(r.s)]
    ELSE IF isdigit(v)
    THEN [raised |-> "none", v |-> PyInt(as_integer(v).value)]
    ELSE [raised |-> "none", v |-> Str(v)]

\* A loop of parse_url that stores the page index p like any other key.
RECURSIVE parse_params_keeping_p(_, _, _)
parse_params_keeping_p(d, params, enc) ==
    IF Len(params) = 0 THEN [raised |-> "none", dict |-> d]
    ELSE LET kv == split(params[1], "=")
             k  == replace(kv[1], "-", <<"_">>)
         IN  IF Len(kv) < 2 THEN [raised |-> "IndexError", dict |-> d]
             ELSE LET pv == parse_value(kv[2], enc)
                  IN  IF pv.raised # "none"
                      THEN [raised |-> pv.raised, dict |-> d]
                      ELSE parse_params_keeping_p(setattr(d, k, pv.v),
                                                  Tail(params), enc)

\* for param in params: kv = param.split('='); k = kv[0].replace('-', '_');
\* v = kv[1]; ...; if k != 'p': setattr(self, k, v)
RECURSIVE parse_params(_, _, _)
parse_params(d, params, enc) ==
    IF Len(params) = 0 THEN [raised |-> "none", dict |-> d]
    ELSE LET kv == split(params[1], "=")
             k  == replace(kv[1], "-", <<"_">>)
         IN  IF Len(kv) < 2 THEN [raised |-> "IndexError", dict |-> d]
             ELSE LET pv == parse_value(kv[2], enc)
                  IN  IF pv.raised # "none"
                      THEN [raised |-> pv.raised, dict |-> d]
                      ELSE parse_params(
                               IF k # key_p THEN setattr(d, k, pv.v) ELSE d,
                               Tail(params), enc)

\* parse_url(url), enc being the original_encoding of the fetched page.
parse_url(d, address, enc) ==
    LET url_halves == split_first(address, "?")
    IN  IF Len(url_halves) < 2 THEN [raised |-> "IndexError", dict |-> d]
        ELSE LET r == parse_params(d, split(url_halves[2], "&"), enc)
             IN  IF r.raised # "none" THEN r
                 ELSE [raised |-> "none",
                       dict   |-> setattr(r.dict, base_url,
                                          Str(url_halves[1] \o <<"?">>))]

\* The classes whose __init__ has the parameter url.
UrlClasses == {"RNCQueryGeneric", "RNCQueryMain"}

\* __init__ of RNCQueryGeneric and RNCQueryMain when a url is given: base_url
\* is set, then parse_url runs.
init_url(cls, address, enc) ==
    parse_url(base_url :> Str(search_url), address, enc)

(***************************************************************************)
(* The queries under study.                                                *)
(***************************************************************************)
key_lang     == <<"l", "a", "n", "g">>
key_sem_mod1 == <<"s", "e", "m", "_", "m", "o", "d", "1">>

\* The names and values of the explicit parameters of the model.
KwargKeys == {key_lang, key_sem_mod1, key_lex1, key_p}

KwargValues ==
    { Str(<<"r", "u">>), Str(<<>>), PyInt(2), Str(<<"xD1", "x87">>) }

Kwargs ==
    UNION { [S -> KwargValues] :
              S \in {T \in SUBSET KwargKeys : Cardinality(T) <= MaxKwargs} }

\* The original_encoding the parsed page may report.
Encodings == {"None", "utf-8", "windows-1251"}

\* The pairs of the urls that are given to a query from outside.
GivenPairs ==
    { <<"l", "a", "n", "g", "=", "r", "u">>,
      <<"l", "a", "n", "g", "=", "e", "n">>,
      <<"s", "e", "m", "-", "m", "o", "d", "1", "=", "s", "e", "m">>,
      <<"p", "=", "2">>,
      <<"p", "a", "r", "e", "n", "t", "1", "=", "0">>,
      <<"l", "e", "x", "1", "=", "%", "D", "1", "%", "8", "7">> }

\* '&'.join(ps)
RECURSIVE join_amp(_)
join_amp(ps) ==
    IF Len(ps) = 1 THEN ps[1] ELSE ps[1] \o <<"&">> \o join_amp(Tail(ps))

GivenUrls ==
    { search_url \o join_amp(ps) :
        ps \in UNION { [1..k -> GivenPairs] : k \in 1..MaxPairs } }

RECURSIVE SetToSeq(_)
SetToSeq(S) ==
    IF S = {} THEN <<>>
    ELSE LET x == CHOOSE x \in S : TRUE IN <<x>> \o SetToSeq(S \ {x})

Reverse(s) == [i \in 1..Len(s) |-> s[Len(s) + 1 - i]]

\* Orders in which the keys of a __dict__ may be iterated: the order is not
\* defined by the language; the model takes one order and its reverse.
IterationOrders(d) == {SetToSeq(DOMAIN d), Reverse(SetToSeq(DOMAIN d))}

\* The caller holds a class and explicit parameters.
NewQuery ==
    /\ q_pc = "new" /\ q_cls \in Classes /\ q_kwargs \in Kwargs
    /\ q_dict = <<>> /\ q_address = <<>>
    /\ q2_cls = "none" /\ q2_dict = <<>> /\ q_error = "none"

\* The caller holds a url copied from the web interface.
GivenUrl ==
    /\ q_pc = "given_url" /\ q_cls = "none" /\ q_kwargs = <<>>
    /\ q_dict = <<>> /\ q_address \in GivenUrls
    /\ q2_cls = "none" /\ q2_dict = <<>> /\ q_error = "none"

\* q = cls(**kwargs)
Query_init ==
    /\ q_pc = "new"
    /\ q_dict' = init_kwargs(q_cls, q_kwargs)
    /\ q_pc' = "constructed"
    /\ UNCHANGED <<q_cls, q_kwargs, q_address, q2_cls, q2_dict, q_error>>

\* address = q.url()
Query_url ==
    /\ q_pc = "constructed"
    /\ \E order \in IterationOrders(q_dict) :
         LET r == url(q_dict, order)
         IN  /\ q_error' = r.raised
             /\ q_address' = IF r.raised = "none" THEN r.address ELSE <<>>
             /\ q_pc' = IF r.raised = "none" THEN "serialized"
                        ELSE "url_raised"
    /\ UNCHANGED <<q_cls, q_kwargs, q_dict, q2_cls, q2_dict>>

\* q2 = cls(url=address): the page at the address is fetched and reports its
\* encoding, then the address is parsed.
Query_init_url ==
    /\ q_pc \in {"serialized", "given_url"}
    /\ \E cls \in UrlClasses, enc \in Encodings :
         LET r == init_url(cls, q_address, enc)
         IN  /\ q_error' = r.raised
             /\ q2_dict' = IF r.raised = "none" THEN r.dict ELSE <<>>
             /\ q_pc' = IF r.raised = "none" THEN "parsed"
                        ELSE "parse_raised"
             /\ q2_cls' = cls
    /\ UNCHANGED <<q_cls, q_kwargs, q_dict, q_address>>

(***************************************************************************)
(* The specifications: one per component; the other components stay idle.  *)
(***************************************************************************)
IdleQuery ==
    /\ q_pc = "none" /\ q_cls = "none" /\ q_kwargs = <<>> /\ q_dict = <<>>
    /\ q_address = <<>> /\ q2_cls = "none" /\ q2_dict = <<>>
    /\ q_error = "none"

FetchInit == Webpage_init /\ IdleSource /\ IdleInt /\ IdleQuery

FetchNext ==
    \/ (PageStep /\ UNCHANGED <<sourceVars, intVars, queryVars>>)
    \/ (OpenOk /\ UNCHANGED <<sourceVars, intVars, queryVars>>)
    \/ (page_open_ioerror /\ UNCHANGED <<sourceVars, intVars, queryVars>>)

FetchSpec == FetchInit /\ [][FetchNext]_vars

\* page() is a running sequential program, so each of its steps is eventually
\* taken; that the opener eventually succeeds is the hypothesis of the
\* termination claim.
FetchLiveSpec ==
    /\ FetchInit /\ [][FetchNext]_vars
    /\ WF_vars(PageStep /\ UNCHANGED <<sourceVars, intVars, queryVars>>)
    /\ SF_vars(OpenOk /\ UNCHANGED <<sourceVars, intVars, queryVars>>)

SourceInit == IdleFetch /\ delay = 0 /\ NewSource /\ IdleInt /\ IdleQuery

SourceNext == RNCSource_init /\ UNCHANGED <<fetchVars, intVars, queryVars>>

SourceSpec == SourceInit /\ [][SourceNext]_vars

IntInit == IdleFetch /\ delay = 0 /\ IdleSource /\ NewInt /\ IdleQuery

IntNext == call_as_integer /\ UNCHANGED <<fetchVars, sourceVars, queryVars>>

IntSpec == IntInit /\ [][IntNext]_vars

QueryInit ==
    /\ IdleFetch /\ delay = 0 /\ IdleSource /\ IdleInt
    /\ (NewQuery \/ GivenUrl)

QueryNext ==
    \/ (Query_init /\ UNCHANGED <<fetchVars, sourceVars, intVars>>)
    \/ (Query_url /\ UNCHANGED <<fetchVars, sourceVars, intVars>>)
    \/ (Query_init_url /\ UNCHANGED <<fetchVars, sourceVars, intVars>>)

QuerySpec == QueryInit /\ [][QueryNext]_vars

(***************************************************************************)
(* Properties of Webpage.page                                              *)
(***************************************************************************)
Backoffs(sl) == SelectSeq(sl, LAMBDA x : x.kind = "backoff")

\* The Fibonacci numbers by their recurrence.
RECURSIVE fib(_)
fib(n) == IF n <= 2 THEN 1 ELSE fib(n - 1) + fib(n - 2)

\* C3: page() returns only at the first successful retrieval, returns what
\* that retrieval delivered, and retrieves nothing after it: in every call a
\* success is the last outcome, it ends the loop, and every outcome before
\* it is an IOError that the handler absorbed.
C3_ReturnsAtFirstSuccess ==
    /\ \A i \in 1..Len(outcomes) : outcomes[i].ok => i = Len(outcomes)
    /\ (Len(outcomes) > 0 /\ Last(outcomes).ok) =>
           (f_pc \in {"loop", "returned"} /\ ~page_not_loaded)
    /\ f_pc = "returned" =>
           /\ Len(outcomes) > 0
           /\ Last(outcomes).ok
           /\ result = Last(outcomes).page
           /\ \A i \in 1..(Len(outcomes) - 1) : ~outcomes[i].ok

C3_Witness ==
    /\ f_pc = "returned"
    /\ Failures(outcomes) >= 2
    /\ result = Last(outcomes).page

\* C4: the loop never gives up: after every IOError the handler leads to
\* another retrieval attempt; page() returns only after a success; and if the
\* opener eventually succeeds, page() eventually returns.
C4_RetriesWithoutBound ==
    /\ [](f_pc = "returned" => (Len(outcomes) > 0 /\ Last(outcomes).ok))
    /\ ((f_pc = "except") ~> (f_pc = "open"))
    /\ ((f_pc = "open") ~> (f_pc = "returned"))

C4_Witness ==
    /\ f_pc = "returned"
    /\ Failures(outcomes) >= 3

\* C5: in every call, whatever the earlier calls did, attempt is 1 plus the
\* number of failed attempts handled so far, and the k-th backoff sleep of
\* the call lasts fib(k) seconds.
C5_FibonacciBackoff ==
    f_pc # "idle" =>
        LET bs == Backoffs(sleeps)
        IN  /\ attempt = 1 + Len(bs)
            /\ Len(bs) = IF f_pc = "except" THEN Failures(outcomes) - 1
                         ELSE Failures(outcomes)
            /\ \A k \in 1..Len(bs) : bs[k].secs = fib(k)

C5_Witness ==
    /\ calls = 2
    /\ prev_failures >= 2
    /\ Len(Backoffs(sleeps)) >= 4
    /\ Last(Backoffs(sleeps)).secs = 3

DelaySleeps(sl) == {i \in 1..Len(sl) : sl[i].kind = "delay"}

\* C11 as stated: within one call the delay is slept exactly once, before
\* the first retrieval attempt, and never again after a failed attempt.
C11_DelaySleptOnce ==
    /\ Cardinality(DelaySleeps(sleeps)) <= 1
    /\ Len(outcomes) > 0 => DelaySleeps(sleeps) = {1}

\* C11 as amended: the delay is slept before every retrieval attempt of a
\* call; the sleeps of a call are, in turn, the delay and the backoff of
\* the attempt that then failed, so that between the failed attempt k and
\* attempt k+1 the fib(k) backoff is followed by the delay.
C11_DelayBeforeEveryAttempt ==
    /\ \A i \in 1..Len(sleeps) :
           IF i % 2 = 1
           THEN sleeps[i] = [kind |-> "delay", secs |-> delay]
           ELSE sleeps[i] = [kind |-> "backoff", secs |-> fib(i \div 2)]
    /\ Cardinality(DelaySleeps(sleeps)) =
           Len(outcomes) + (IF f_pc = "open" THEN 1 ELSE 0)

\* A call that returned after two failed attempts: three delays, two
\* backoffs.
C11_Witness ==
    /\ f_pc = "returned"
    /\ Failures(outcomes) = 2
    /\ Len(sleeps) = 5
    /\ DelaySleeps(sleeps) = {1, 3, 5}

(***************************************************************************)
(* Properties of RNCSource                                                 *)
(***************************************************************************)
\* A year range starts at position i of s: four digits, a hyphen, four
\* digits.
IsYearRangeAt(s, i) ==
    /\ i >= 1 /\ i + 8 <= Len(s)
    /\ {s[j] : j \in i..(i + 3)} \cup {s[j] : j \in (i + 5)..(i + 8)} \subseteq Digits
    /\ s[i + 4] = "-"

HasYearRange(s) == \E i \in 1..Len(s) : IsYearRangeAt(s, i)

LeftmostYearRange(s) ==
    CHOOSE i \in 1..Len(s) :
        IsYearRangeAt(s, i) /\ \A j \in 1..(i - 1) : ~IsYearRangeAt(s, j)

\* The number written by the four digits at positions i..i+3 of s.
YearAt(s, i) ==
    1000 * DigitVal(s[i]) + 100 * DigitVal(s[i + 1])
        + 10 * DigitVal(s[i + 2]) + DigitVal(s[i + 3])

\* The first position of the run of digits that position i of s lies in.
RunStart(s, i) ==
    CHOOSE b \in 1..i :
        /\ \A j \in b..i : s[j] \in Digits
        /\ (b = 1 \/ s[b - 1] \notin Digits)

\* The positions of the 4-digit numbers of s: each run of digits read in
\* groups of four from its left end.
YearPositions(s) ==
    { i \in 1..(Len(s) - 3) :
        /\ \A j \in i..(i + 3) : s[j] \in Digits
        /\ (i - RunStart(s, i)) % 4 = 0 }

Years(s) == { YearAt(s, i) : i \in YearPositions(s) }

Smallest(S) == CHOOSE m \in S : \A n \in S : m <= n

\* C6 as stated: after construction date_begin <= date_middle <= date_end.
C6_DatesOrdered ==
    s_pc = "constructed" =>
        (date_begin <= date_middle /\ date_middle <= date_end)

\* C7: when the name holds a year range, the dates are those of the leftmost
\* one: date_begin its first number, date_end its second, date_middle their
\* mean (dates are kept in half years).
C7_LeftmostRange ==
    (s_pc = "constructed" /\ HasYearRange(source_name)) =>
        LET i == LeftmostYearRange(source_name)
        IN  /\ date_begin = 2 * YearAt(source_name, i)
            /\ date_end = 2 * YearAt(source_name, i + 5)
            /\ 2 * date_middle = date_begin + date_end

\* A range that is not at the start of the name, with a smaller year before
\* it and a different range after it.
C7_Witness ==
    /\ s_pc = "constructed"
    /\ HasYearRange(source_name)
    /\ LET i == LeftmostYearRange(source_name)
       IN  /\ i > 4
           /\ 1 \in YearPositions(source_name)
           /\ 2 * YearAt(source_name, 1) < date_begin
           /\ date_begin = 2 * YearAt(source_name, i)
           /\ date_begin # date_end

\* C8: when the name holds no year range, the three dates are equal: the
\* smallest of its 4-digit numbers, or 0.0 when it has none.
C8_EarliestYear ==
    (s_pc = "constructed" /\ ~HasYearRange(source_name)) =>
        /\ date_begin = date_middle
        /\ date_middle = date_end
        /\ date_begin = IF Years(source_name) = {} THEN 0
                        ELSE 2 * Smallest(Years(source_name))

\* Two different years, the later one first, and no range.
C8_Witness ==
    /\ s_pc = "constructed"
    /\ ~HasYearRange(source_name)
    /\ Cardinality(Years(source_name)) >= 2
    /\ 1 \in YearPositions(source_name)
    /\ 2 * YearAt(source_name, 1) > date_begin
    /\ date_end = 2 * Smallest(Years(source_name))

(***************************************************************************)
(* Properties of as_integer                                                *)
(***************************************************************************)
OnlyDigits(s) == SelectSeq(s, LAMBDA c : c \in Digits)

\* C9 as stated: for a non-empty string without a digit the conversion fails
\* with ValueError and returns no value.
C9_NoDigitsRaises ==
    (i_pc = "called" /\ Len(i_s) > 0 /\ Len(OnlyDigits(i_s)) = 0) =>
        i_ret.raised = "ValueError"

\* C10 as stated: for a string of digits and whitespace with at least one
\* digit the conversion succeeds and returns the number its digits write.
C10_DigitsAndWhitespace ==
    (/\ i_pc = "called"
     /\ \A k \in 1..Len(i_s) : i_s[k] \in Digits \cup Whitespace
     /\ Len(OnlyDigits(i_s)) > 0) =>
        (i_ret.raised = "none" /\ i_ret.value = digits_value(OnlyDigits(i_s)))

(***************************************************************************)
(* Properties of the query classes                                         *)
(***************************************************************************)
\* The parameters of a query: its attributes other than base_url.
Parameters(d) == [k \in DOMAIN d \ {base_url} |-> d[k]]

\* v == w of Python 2 for two values: a str equals a unicode only when it is
\* ASCII.
PyEq(v, w) ==
    \/ v = w
    \/ /\ {v.t, w.t} = {"str", "unicode"}
       /\ v.s = w.s
       /\ \A i \in 1..Len(v.s) : IsAscii(v.s[i])

\* Two parameter sets are equal when the pagination key p is ignored.
SameParametersButP(d, e) ==
    /\ DOMAIN d \ {key_p} = DOMAIN e \ {key_p}
    /\ \A k \in DOMAIN d \ {key_p} : PyEq(d[k], e[k])

\* C1 as stated: a query built from explicit parameters, serialized with
\* url() and built again from that url: the second construction completes
\* without error and yields the parameters of the first, p ignored.
C1_RoundTrip ==
    (q_cls # "none" /\ q_pc \in {"parsed", "parse_raised"}) =>
        /\ q_error = "none"
        /\ SameParametersButP(Parameters(q_dict), Parameters(q2_dict))

\* C2: the parameters of a query built from explicit parameters are those
\* explicit parameters together with the defaults of its class, an explicit
\* value standing wherever both name the same key.
C2_OverridesWin ==
    (q_cls # "none" /\ q_pc # "new") =>
        LET P == Parameters(q_dict)
        IN  /\ DOMAIN P = DOMAIN q_kwargs \cup DOMAIN DEFAULTS(q_cls)
            /\ \A k \in DOMAIN q_kwargs : P[k] = q_kwargs[k]
            /\ \A k \in DOMAIN DEFAULTS(q_cls) \ DOMAIN q_kwargs :
                   P[k] = DEFAULTS(q_cls)[k]

\* RNCQueryMain(lang='ru'): lang is 'ru', not the default 'en'.
C2_Witness ==
    /\ q_pc = "constructed"
    /\ q_cls = "RNCQueryMain"
    /\ key_lang \in DOMAIN q_kwargs
    /\ q_kwargs[key_lang] = Str(<<"r", "u">>)
    /\ q_dict[key_lang] = Str(<<"r", "u">>)
    /\ DEFAULTS(q_cls)[key_lang] = Str(<<"e", "n">>)

HasHyphen(k) == \E i \in 1..Len(k) : k[i] = "-"

\* C12 as stated: after construction by any path (a class with explicit
\* parameters, or a url), no stored parameter name contains a hyphen.
C12_StoredNamesHyphenFree ==
    /\ (q_cls # "none" /\ q_pc # "new") =>
           \A k \in DOMAIN Parameters(q_dict) : ~HasHyphen(k)
    /\ q_pc = "parsed" =>
           \A k \in DOMAIN Parameters(q2_dict) : ~HasHyphen(k)

\* The key of a parameter as url() is to write it.
Hyphenated(k) == [i \in 1..Len(k) |-> IF k[i] = "_" THEN "-" ELSE k[i]]

\* The 'key=value' segments of an address returned by url(): the text after
\* the base url, cut at every '&'.
Segments(d, address) ==
    split(SubSeq(address, Len(d[base_url].s) + 1, Len(address)), "&")

SegmentKey(seg) == split_first(seg, "=")[1]

\* C13 as stated: for a query built from explicit parameters whose url() has
\* returned, the address is base_url followed by exactly one 'key=value&'
\* segment per parameter, the key hyphenated and an empty-string value
\* written 'key=&'; no key occurs in two segments.
C13_OneSegmentPerKey ==
    (q_cls # "none" /\ q_pc = "serialized") =>
        LET P    == Parameters(q_dict)
            segs == Segments(q_dict, q_address)
            n    == Len(segs) - 1
        IN  /\ SubSeq(q_address, 1, Len(q_dict[base_url].s))
                   = q_dict[base_url].s
            /\ segs[Len(segs)] = <<>>
            /\ n = Cardinality(DOMAIN P)
            /\ \A k \in DOMAIN P :
                   \E i \in 1..n :
                       /\ SegmentKey(segs[i]) = Hyphenated(k)
                       /\ P[k] = Str(<<>>) =>
                              segs[i] = Hyphenated(k) \o <<"=">>
            /\ \A i, j \in 1..n :
                   i # j => SegmentKey(segs[i]) # SegmentKey(segs[j])

\* The pairs of a url base?k1=v1&...&kn=vn, the name under which pair i is
\* stored and the text of its value.
UrlPairs(address) == split(split_first(address, "?")[2], "&")

PairName(pair) ==
    LET k == split_first(pair, "=")[1]
    IN  [i \in 1..Len(k) |-> IF k[i] = "-" THEN "_" ELSE k[i]]

PairText(pair) == split_first(pair, "=")[2]

\* What a stored value must be for the text of a pair: the integer for an
\* all-digit text, the percent-decoded unicode string (under the encoding
\* the page reported) for a text with an escape, the text itself otherwise.
StoredAs(v, text) ==
    IF \E i \in 1..Len(text) : text[i] = "%"
    THEN /\ v.t = "unicode"
         /\ \E enc \in Encodings :
                LET r == decode(unquote(text), enc)
                IN  r.raised = "none" /\ v.s = r.s
    ELSE IF text # <<>> /\ \A i \in 1..Len(text) : text[i] \in Digits
    THEN v = PyInt(digits_value(text))
    ELSE v = Str(text)

\* C14: after a query is built from a url base?k1=v1&...&kn=vn, base_url is
\* the text up to and including the first '?', and the stored parameters
\* are exactly the pairs whose key is not p, under the key with underscores
\* for hyphens, an all-digit value as an integer, the last pair of a key
\* standing for the key; p is not stored and nothing else is added.
C14_ParsedFromUrl ==
    q_pc = "parsed" =>
        LET pairs == UrlPairs(q_address)
            kept  == {i \in 1..Len(pairs) : PairName(pairs[i]) # key_p}
            P     == Parameters(q2_dict)
        IN  /\ q2_dict[base_url] =
                   Str(split_first(q_address, "?")[1] \o <<"?">>)
            /\ DOMAIN P = {PairName(pairs[i]) : i \in kept}
            /\ key_p \notin DOMAIN P
            /\ \A i \in kept :
                   (\A j \in kept :
                        PairName(pairs[j]) = PairName(pairs[i]) => j <= i)
                   => StoredAs(P[PairName(pairs[i])], PairText(pairs[i]))

\* RNCQueryMain(url='...search.xml?p=2&sem-mod1=sem'): sem_mod1 is stored,
\* p is not, and no default of the class is.
C14_Witness ==
    /\ q_pc = "parsed"
    /\ q2_cls = "RNCQueryMain"
    /\ UrlPairs(q_address) =
           << <<"p", "=", "2">>,
              <<"s", "e", "m", "-", "m", "o", "d", "1", "=", "s", "e", "m">> >>
    /\ DOMAIN Parameters(q2_dict) = {key_sem_mod1}
    /\ q2_dict[key_sem_mod1] = Str(<<"s", "e", "m">>)

====
